---- MODULE Spec2Model ----
(***************************************************************************)
(* The two reporting scripts of aws-reporting-scripts as one state machine *)
(*   ssm_patching_audit.py  one CSV row per enabled Maintenance Window     *)
(*   ssm_agent_audit.py     one CSV row per EC2 instance                   *)
(* The provider (AWS) is the value aws, fixed when a run starts; every API *)
(* request either returns what aws holds or fails (a ClientError).         *)
(* Python strings are TLA+ strings, '' is "", a dict is a record and a key *)
(* is present when it is in the record's DOMAIN.                           *)
(***************************************************************************)
EXTENDS Integers, Sequences, FiniteSets, TLC

VARIABLES script, args, aws, pc, region_list, region_idx, account_number,
          gen, locals, out, calls, yielded, err

vars == <<script, args, aws, pc, region_list, region_idx, account_number,
          gen, locals, out, calls, yielded, err>>

----------------------------------------------------------------------------
(* Bounds of the model *)

\* pages a listing is split into, at most
MaxPages == 2
\* tasks registered with one Maintenance Window, at most
MaxTasks == 2
\* tags carried by one EC2 instance, at most
MaxTags == 2

----------------------------------------------------------------------------
(* Python helpers *)

HasKey(d, k) == k \in DOMAIN d

\* the outcome of a call: a returned value or a raised exception, with the
\* API requests it issued
Ret(v, reqs) == [exc |-> "", val |-> v, reqs |-> reqs]
Raise(e, reqs) == [exc |-> e, val |-> "", reqs |-> reqs]

Digits == <<"0", "1", "2", "3", "4", "5", "6", "7", "8", "9">>

\* str(n) of a non-negative int
RECURSIVE int_str(_)
int_str(n) == IF n < 10 THEN Digits[n + 1]
              ELSE int_str(n \div 10) \o Digits[(n % 10) + 1]

\* a row value as main holds it: a str, or the int of 'ApproveAfterDays'
PyStr(s) == [t |-> "str", s |-> s, n |-> 0]
PyInt(n) == [t |-> "int", s |-> "", n |-> n]

\* what csv.writer does to one field value: str(value)
csv_str(v) == IF v.t = "int" THEN int_str(v.n) ELSE v.s

\* sep.join(values)
RECURSIVE str_join(_, _)
str_join(sep, values) ==
    IF values = <<>> THEN ""
    ELSE IF Len(values) = 1 THEN values[1]
    ELSE values[1] \o sep \o str_join(sep, Tail(values))

\* [item for item in items if item['Key'] == key]
RECURSIVE items_with_key(_, _)
items_with_key(items, key) ==
    IF items = <<>> THEN <<>>
    ELSE IF items[1].Key = key
         THEN <<items[1]>> \o items_with_key(Tail(items), key)
         ELSE items_with_key(Tail(items), key)

RECURSIVE Flatten(_)
Flatten(pages) == IF pages = <<>> THEN <<>> ELSE pages[1] \o Flatten(Tail(pages))

IsPrefix(s, t) == Len(s) <= Len(t) /\ SubSeq(t, 1, Len(s)) = s

----------------------------------------------------------------------------
(* The provider: what the AWS APIs answer *)

\* describe_regions, and the region the session is configured with
PublishedRegions == <<"eu-west-1", "us-east-1">>
DefaultRegion == "us-east-1"
AccountId == "111122223333"

\* what --region can be given as; parse_args leaves False when it is not given
RegionTokens == {"all", "ALL", "All", "eu-west-1", "us-east-1", "mars-1"}
NoRegion == [given |-> FALSE, token |-> ""]
GivenRegion(t) == [given |-> TRUE, token |-> t]

\* the continuation token a page that is not the last carries
TokenOf(k) == "token-" \o int_str(k)

\* page k+1 is what a request carrying TokenOf(k) is answered with
PageOfToken(n, token) ==
    IF \E k \in 1..n : TokenOf(k) = token
    THEN (CHOOSE k \in 1..n : TokenOf(k) = token) + 1
    ELSE 0

\* every way to split a prefix of items into 1..MaxPages pages
RECURSIVE Splits(_, _)
Splits(items, n) ==
    IF n = 1 THEN {<<items>>}
    ELSE UNION {{<<SubSeq(items, 1, i)>> \o rest :
                    rest \in Splits(SubSeq(items, i + 1, Len(items)), n - 1)} :
                i \in 0..Len(items)}

Listings(items) ==
    UNION {Splits(SubSeq(items, 1, m), n) : m \in 0..Len(items), n \in 1..MaxPages}

(* Maintenance Windows *)

TaskIdOf(n) == "task-" \o int_str(n)
TaskIds == {TaskIdOf(n) : n \in 1..MaxTasks}

\* the task lists of a window: up to MaxTasks tasks, none twice
RECURSIVE TaskLists(_)
TaskLists(n) ==
    IF n = 0 THEN {<<>>}
    ELSE LET shorter == TaskLists(n - 1) IN
         shorter \cup {Append(l, t) : l \in {x \in shorter : Len(x) = n - 1},
                                      t \in TaskIds}

DistinctTaskLists ==
    {l \in TaskLists(MaxTasks) : \A i, j \in 1..Len(l) : i # j => l[i] # l[j]}

TasksResponse(l) == [Tasks |-> [i \in 1..Len(l) |-> [WindowTaskId |-> l[i]]]]

WindowResponse(w, tz) ==
    IF tz = ""
    THEN [Name |-> "name-" \o w, Schedule |-> "cron(0 2 ? * SUN *)"]
    ELSE [Name |-> "name-" \o w, Schedule |-> "cron(0 2 ? * SUN *)",
          ScheduleTimezone |-> tz]

KV(k, vs) == [Key |-> k, Values |-> vs]

RunCommand(op) ==
    [RunCommand |-> [Parameters |-> [Operation |-> op]]]

TaskResponse(targets, arn) == [Targets |-> targets, TaskArn |-> arn]
TaskResponseOp(targets, arn, params) ==
    [Targets |-> targets, TaskArn |-> arn, TaskInvocationParameters |-> params]

\* a task as the console sets it up: one registered target, Operation given
TaskFull(tg, arn, op) ==
    TaskResponseOp(<<KV("WindowTargetIds", <<tg>>)>>, arn, RunCommand(<<op>>))

\* the first task's answers that stop the chain at get_task_info
DeadTaskResponses ==
    { TaskResponse(<<>>, "AWS-RunPatchBaseline"),
      TaskResponse(<<KV("InstanceIds", <<"i-1">>)>>, "AWS-RunPatchBaseline"),
      TaskResponse(<<KV("WindowTargetIds", <<>>)>>, "AWS-RunPatchBaseline"),
      TaskFull("", "AWS-RunPatchBaseline", "Install") }

\* ... and those that name the target "target-1"
LiveTaskResponses ==
    { TaskFull("target-1", "AWS-RunPatchBaseline", "Install"),
      TaskResponse(<<KV("WindowTargetIds", <<"target-1">>)>>, "AWS-RunPatchBaseline"),
      TaskResponseOp(<<KV("WindowTargetIds", <<"target-1">>)>>, "AWS-RunPatchBaseline",
                     [Lambda |-> [Qualifier |-> "1"]]),
      TaskResponseOp(<<KV("WindowTargetIds", <<"target-1">>)>>, "AWS-RunPatchBaseline",
                     RunCommand(<<>>)),
      TaskResponseOp(<<KV("InstanceIds", <<"i-1">>),
                       KV("WindowTargetIds", <<"target-1", "target-2">>)>>,
                     "AWS-RunPatchBaseline", RunCommand(<<"Scan", "Install">>)) }

Target(tags) == [WindowTargetId |-> "target", Targets |-> tags]

\* the target's answers without a usable 'Patch Group' tag
DeadTargetResponses ==
    { [WindowId |-> "none"],
      [Targets |-> <<>>],
      [Targets |-> <<[WindowTargetId |-> "target"]>>],
      [Targets |-> <<Target(<<>>)>>],
      [Targets |-> <<Target(<<KV("tag:Env", <<"prod">>)>>)>>],
      [Targets |-> <<Target(<<KV("tag:Patch Group", <<>>)>>)>>],
      [Targets |-> <<Target(<<KV("tag:Patch Group", <<"">>)>>)>>],
      [Targets |-> <<Target(<<KV("tag:Env", <<"prod">>)>>),
                     Target(<<KV("tag:Patch Group", <<"group-1">>)>>)>>] }

\* ... and those that carry the patch group "group-1"
LiveTargetResponses ==
    { [Targets |-> <<Target(<<KV("tag:Patch Group", <<"group-1">>)>>)>>],
      [Targets |-> <<Target(<<KV("tag:Env", <<"prod">>),
                              KV("tag:Patch Group", <<"group-1", "group-2">>)>>),
                     Target(<<KV("tag:Patch Group", <<"group-2">>)>>)>>] }

PatchRule(filters, days) ==
    [PatchFilterGroup |-> [PatchFilters |-> filters], ApproveAfterDays |-> days]
PatchRuleUntil(filters, date) ==
    [PatchFilterGroup |-> [PatchFilters |-> filters], ApproveUntilDate |-> date]

Baseline(name, os, rules) ==
    [Name |-> name, OperatingSystem |-> os, ApprovalRules |-> [PatchRules |-> rules]]

Sev == KV("MSRC_SEVERITY", <<"Critical", "Important">>)
Class == KV("CLASSIFICATION", <<"SecurityUpdates">>)
Product == KV("PRODUCT", <<"WindowsServer2016", "WindowsServer2019">>)

\* the answers of get_patch_baseline for the baseline "pb-1"
BaselineResponses ==
    { Baseline("base-1", "WINDOWS", <<PatchRule(<<Sev, Class>>, 7)>>),
      Baseline("base-1", "WINDOWS", <<PatchRule(<<Product, Class, Sev>>, 0)>>),
      Baseline("base-1", "WINDOWS",
               <<PatchRule(<<Class, Sev, KV("MSRC_SEVERITY", <<"Low">>)>>, 14),
                 PatchRule(<<KV("MSRC_SEVERITY", <<"Moderate">>),
                             KV("CLASSIFICATION", <<"Updates">>)>>, 3)>>),
      Baseline("base-1", "WINDOWS",
               <<PatchRule(<<KV("MSRC_SEVERITY", <<>>),
                             KV("CLASSIFICATION", <<"CriticalUpdates", "Updates",
                                                    "SecurityUpdates">>)>>, 10)>>),
      Baseline("base-1", "WINDOWS", <<PatchRuleUntil(<<Sev, Class>>, "2026-01-01")>>),
      Baseline("base-1", "AMAZON_LINUX_2",
               <<PatchRule(<<Class, KV("SEVERITY", <<"Critical">>)>>, 7)>>),
      Baseline("base-1", "WINDOWS", <<PatchRule(<<Sev>>, 7)>>),
      Baseline("base-1", "WINDOWS", <<PatchRule(<<>>, 7)>>),
      Baseline("base-1", "WINDOWS", <<>>) }

\* what is fixed: the second and later tasks, the second target and patch group
OtherTask(t) == TaskFull("target-2", "AWS-RunShellScript-" \o t, "Scan")
DefaultTask == [t \in TaskIds |->
                  IF t = TaskIdOf(1)
                  THEN TaskFull("target-1", "AWS-RunPatchBaseline", "Install")
                  ELSE OtherTask(t)]
DefaultTargets ==
    ("target-1" :> [Targets |-> <<Target(<<KV("tag:Patch Group", <<"group-1">>)>>)>>])
    @@ ("target-2" :> [Targets |-> <<Target(<<KV("tag:Patch Group", <<"group-2">>)>>)>>])
DefaultPatchGroup ==
    ("group-1" :> [BaselineId |-> "pb-1"]) @@ ("group-2" :> [BaselineId |-> "pb-2"])
DefaultBaseline ==
    ("pb-1" :> Baseline("base-1", "WINDOWS", <<PatchRule(<<Sev, Class>>, 7)>>))
    @@ ("pb-2" :> Baseline("base-2", "WINDOWS",
                           <<PatchRule(<<KV("CLASSIFICATION", <<"Updates">>),
                                         KV("MSRC_SEVERITY", <<"Moderate">>)>>, 21)>>))

\* everything the APIs answer about one Maintenance Window
WindowShape(w, tz, tasks, task1, target1) ==
    [window |-> WindowResponse(w, tz),
     tasks |-> TasksResponse(tasks),
     task |-> [DefaultTask EXCEPT ![TaskIdOf(1)] = task1],
     targets |-> [DefaultTargets EXCEPT !["target-1"] = target1]]

----------------------------------------------------------------------------
(* boto3 clients *)

\* boto3.client(service, region_name=region), of the provider p
Client(service, region, p) == [service |-> service, region |-> region, aws |-> p]

Request(client, api, params) ==
    [service |-> client.service, region |-> client.region, api |-> api,
     params |-> params]

\* a request that names one resource: answered from table, or a ClientError
\* when the provider fails or holds no such resource
api_get(client, api, params, table, key, fails) ==
    IF fails \/ key \notin DOMAIN table
    THEN Raise("ClientError", <<Request(client, api, params)>>)
    ELSE Ret(table[key], <<Request(client, api, params)>>)

\* the provider's table of one window, empty for a window it does not hold
WindowTable(p, w, field) == IF w \in DOMAIN p.mw THEN p.mw[w][field] ELSE <<>>

----------------------------------------------------------------------------
(* ssm_patching_audit.py: the lookups of one Maintenance Window *)

NoWindowInfo == [name |-> "", sched |-> "", time_zone |-> ""]

get_maint_window_info(ssm_client, maint_window_id, fails) ==
    LET call == api_get(ssm_client, "get_maintenance_window",
                        [WindowId |-> maint_window_id],
                        [w \in DOMAIN ssm_client.aws.mw |-> ssm_client.aws.mw[w].window],
                        maint_window_id, fails)
        maint_window == call.val
    IN  IF call.exc # "" THEN call
        ELSE IF ~HasKey(maint_window, "Name") \/ ~HasKey(maint_window, "Schedule")
        THEN Raise("KeyError", call.reqs)
        ELSE Ret([name |-> maint_window.Name,
                  sched |-> maint_window.Schedule,
                  time_zone |-> IF HasKey(maint_window, "ScheduleTimezone")
                                THEN maint_window.ScheduleTimezone
                                ELSE ""],
                 call.reqs)

\* the last listed task taken for the first
get_maint_window_task_1_last(ssm_client, maint_window_id, fails) ==
    LET call == api_get(ssm_client, "describe_maintenance_window_tasks",
                        [WindowId |-> maint_window_id, MaxResults |-> 10],
                        [w \in DOMAIN ssm_client.aws.mw |-> ssm_client.aws.mw[w].tasks],
                        maint_window_id, fails)
        task_list == call.val
    IN  IF call.exc # "" THEN call
        ELSE IF task_list.Tasks = <<>> THEN Ret("", call.reqs)
        ELSE Ret(task_list.Tasks[Len(task_list.Tasks)].WindowTaskId, call.reqs)

\* the IndexError of an empty task list left uncaught
get_maint_window_task_1_raises(ssm_client, maint_window_id, fails) ==
    LET call == api_get(ssm_client, "describe_maintenance_window_tasks",
                        [WindowId |-> maint_window_id, MaxResults |-> 10],
                        [w \in DOMAIN ssm_client.aws.mw |-> ssm_client.aws.mw[w].tasks],
                        maint_window_id, fails)
        task_list == call.val
    IN  IF call.exc # "" THEN call
        ELSE IF task_list.Tasks = <<>> THEN Raise("IndexError", call.reqs)
        ELSE Ret(task_list.Tasks[1].WindowTaskId, call.reqs)

get_maint_window_task_1(ssm_client, maint_window_id, fails) ==
    LET call == api_get(ssm_client, "describe_maintenance_window_tasks",
                        [WindowId |-> maint_window_id, MaxResults |-> 10],
                        [w \in DOMAIN ssm_client.aws.mw |-> ssm_client.aws.mw[w].tasks],
                        maint_window_id, fails)
        task_list == call.val
    IN  IF call.exc # "" THEN call
        ELSE IF ~HasKey(task_list, "Tasks") THEN Raise("KeyError", call.reqs)
        ELSE IF task_list.Tasks = <<>> THEN Ret("", call.reqs)   \* except IndexError
        ELSE IF ~HasKey(task_list.Tasks[1], "WindowTaskId")
        THEN Raise("KeyError", call.reqs)
        ELSE Ret(task_list.Tasks[1].WindowTaskId, call.reqs)

NoTaskInfo == [target_id |-> "", task |-> "", operation |-> ""]

\* maint_window_task['TaskInvocationParameters']['RunCommand']['Parameters']
\* ['Operation'][0], '' on KeyError or IndexError
task_operation(maint_window_task) ==
    IF ~HasKey(maint_window_task, "TaskInvocationParameters") THEN ""
    ELSE LET tip == maint_window_task.TaskInvocationParameters IN
    IF ~HasKey(tip, "RunCommand") THEN ""
    ELSE IF ~HasKey(tip.RunCommand, "Parameters") THEN ""
    ELSE IF ~HasKey(tip.RunCommand.Parameters, "Operation") THEN ""
    ELSE IF tip.RunCommand.Parameters.Operation = <<>> THEN ""
    ELSE tip.RunCommand.Parameters.Operation[1]

get_task_info(ssm_client, maint_window_id, task_id, fails) ==
    IF task_id = "" THEN Ret(NoTaskInfo, <<>>)
    ELSE
    LET call == api_get(ssm_client, "get_maintenance_window_task",
                        [WindowId |-> maint_window_id, WindowTaskId |-> task_id],
                        WindowTable(ssm_client.aws, maint_window_id, "task"),
                        task_id, fails)
        maint_window_task == call.val
        found == items_with_key(maint_window_task.Targets, "WindowTargetIds")
    IN  IF call.exc # "" THEN call
        ELSE IF ~HasKey(maint_window_task, "Targets") THEN Raise("KeyError", call.reqs)
        ELSE IF found = <<>> THEN Raise("StopIteration", call.reqs)
        ELSE IF found[1].Values = <<>> THEN Raise("IndexError", call.reqs)
        ELSE IF ~HasKey(maint_window_task, "TaskArn") THEN Raise("KeyError", call.reqs)
        ELSE Ret([target_id |-> found[1].Values[1],
                  task |-> maint_window_task.TaskArn,
                  operation |-> task_operation(maint_window_task)],
                 call.reqs)

\* describe_maintenance_window_targets filters: a target the window does not
\* hold gives an empty list
targets_call(ssm_client, maint_window_id, target_id, fails) ==
    LET table == WindowTable(ssm_client.aws, maint_window_id, "targets")
        req == Request(ssm_client, "describe_maintenance_window_targets",
                       [WindowId |-> maint_window_id,
                        Filters |-> <<KV("WindowTargetId", <<target_id>>)>>])
    IN  IF fails THEN Raise("ClientError", <<req>>)
        ELSE IF target_id \notin DOMAIN table THEN Ret([Targets |-> <<>>], <<req>>)
        ELSE Ret(table[target_id], <<req>>)

\* the request sits in a try that catches KeyError only: a failed request is a
\* ClientError and leaves the function; next() finding no 'tag:Patch Group'
\* entry raises StopIteration, which except (KeyError, IndexError) lets through
get_target_patch_tag(ssm_client, maint_window_id, target_id, fails) ==
    IF target_id = "" THEN Ret("", <<>>)
    ELSE
    LET call == targets_call(ssm_client, maint_window_id, target_id, fails)
        target_list == call.val
        found == items_with_key(target_list.Targets[1].Targets, "tag:Patch Group")
    IN  IF call.exc # "" THEN call
        ELSE IF ~HasKey(target_list, "Targets") THEN Ret("", call.reqs)   \* KeyError
        ELSE IF target_list.Targets = <<>> THEN Ret("", call.reqs)        \* IndexError
        ELSE IF ~HasKey(target_list.Targets[1], "Targets") THEN Ret("", call.reqs)
        ELSE IF found = <<>> THEN Raise("StopIteration", call.reqs)
        ELSE IF found[1].Values = <<>> THEN Ret("", call.reqs)            \* IndexError
        ELSE Ret(found[1].Values[1], call.reqs)

\* the guard on patch_tag left out
get_baseline_id_unguarded(ssm_client, patch_tag, fails) ==
    LET call == api_get(ssm_client, "get_patch_baseline_for_patch_group",
                        [PatchGroup |-> patch_tag],
                        ssm_client.aws.patch_group, patch_tag, fails)
    IN  IF call.exc # "" THEN call ELSE Ret(call.val.BaselineId, call.reqs)

get_baseline_id(ssm_client, patch_tag, fails) ==
    IF patch_tag = "" THEN Ret("", <<>>)
    ELSE
    LET call == api_get(ssm_client, "get_patch_baseline_for_patch_group",
                        [PatchGroup |-> patch_tag],
                        ssm_client.aws.patch_group, patch_tag, fails)
        baseline == call.val
    IN  IF call.exc # "" THEN call
        ELSE IF ~HasKey(baseline, "BaselineId") THEN Raise("KeyError", call.reqs)
        ELSE Ret(baseline.BaselineId, call.reqs)

NoBaselineInfo ==
    [name |-> "", operating_system |-> "", filter_msrc_sev |-> "",
     filter_class |-> "", delay |-> PyStr("")]

\* the filters read from the last patch rule, not the first
get_baseline_info_last_rule(ssm_client, baseline_id, fails) ==
    IF baseline_id = "" THEN Ret(NoBaselineInfo, <<>>)
    ELSE
    LET call == api_get(ssm_client, "get_patch_baseline", [BaselineId |-> baseline_id],
                        ssm_client.aws.baseline, baseline_id, fails)
        baseline == call.val
        rules == baseline.ApprovalRules.PatchRules
        patch_filters == rules[Len(rules)].PatchFilterGroup.PatchFilters
        sev == items_with_key(patch_filters, "MSRC_SEVERITY")
        class == items_with_key(patch_filters, "CLASSIFICATION")
    IN  IF call.exc # "" THEN call
        ELSE IF rules = <<>> THEN Raise("IndexError", call.reqs)
        ELSE IF sev = <<>> \/ class = <<>> THEN Raise("StopIteration", call.reqs)
        ELSE IF ~HasKey(rules[1], "ApproveAfterDays") THEN Raise("KeyError", call.reqs)
        ELSE Ret([name |-> baseline.Name,
                  operating_system |-> baseline.OperatingSystem,
                  filter_msrc_sev |-> str_join(",", sev[1].Values),
                  filter_class |-> str_join(",", class[1].Values),
                  delay |-> PyInt(rules[1].ApproveAfterDays)],
                 call.reqs)

get_baseline_info(ssm_client, baseline_id, fails) ==
    IF baseline_id = "" THEN Ret(NoBaselineInfo, <<>>)
    ELSE
    LET call == api_get(ssm_client, "get_patch_baseline", [BaselineId |-> baseline_id],
                        ssm_client.aws.baseline, baseline_id, fails)
        baseline == call.val
        rules == baseline.ApprovalRules.PatchRules
        patch_filters == rules[1].PatchFilterGroup.PatchFilters
        sev == items_with_key(patch_filters, "MSRC_SEVERITY")
        class == items_with_key(patch_filters, "CLASSIFICATION")
    IN  IF call.exc # "" THEN call
        ELSE IF ~HasKey(baseline, "Name") \/ ~HasKey(baseline, "OperatingSystem")
        THEN Raise("KeyError", call.reqs)
        ELSE IF ~HasKey(baseline, "ApprovalRules") THEN Raise("KeyError", call.reqs)
        ELSE IF ~HasKey(baseline.ApprovalRules, "PatchRules")
        THEN Raise("KeyError", call.reqs)
        ELSE IF rules = <<>> THEN Raise("IndexError", call.reqs)
        ELSE IF ~HasKey(rules[1], "PatchFilterGroup") THEN Raise("KeyError", call.reqs)
        ELSE IF ~HasKey(rules[1].PatchFilterGroup, "PatchFilters")
        THEN Raise("KeyError", call.reqs)
        ELSE IF sev = <<>> THEN Raise("StopIteration", call.reqs)
        ELSE IF class = <<>> THEN Raise("StopIteration", call.reqs)
        ELSE IF ~HasKey(rules[1], "ApproveAfterDays") THEN Raise("KeyError", call.reqs)
        ELSE Ret([name |-> baseline.Name,
                  operating_system |-> baseline.OperatingSystem,
                  filter_msrc_sev |-> str_join(",", sev[1].Values),
                  filter_class |-> str_join(",", class[1].Values),
                  delay |-> PyInt(rules[1].ApproveAfterDays)],
                 call.reqs)

----------------------------------------------------------------------------
(* ssm_agent_audit.py: the lookups of one instance *)

\* for tag in instance['Tags']: if tag['Key'] == 'Name': instance_name = tag['Value']
RECURSIVE name_of_tags(_, _)
name_of_tags(tags, instance_name) ==
    IF tags = <<>> THEN instance_name
    ELSE name_of_tags(Tail(tags),
                      IF tags[1].Key = "Name" THEN tags[1].Value ELSE instance_name)

\* the KeyError of an instance without 'Tags' left uncaught
get_instance_name_raises(instance) ==
    IF ~HasKey(instance, "Tags") THEN Raise("KeyError", <<>>)
    ELSE Ret(name_of_tags(instance.Tags, ""), <<>>)

get_instance_name(instance) ==
    IF ~HasKey(instance, "Tags") THEN Ret("", <<>>)     \* except KeyError
    ELSE Ret(name_of_tags(instance.Tags, ""), <<>>)

get_instance_platform(instance) ==
    IF ~HasKey(instance, "Platform") THEN Ret("", <<>>)
    ELSE Ret(instance.Platform, <<>>)

NoSsmInfo ==
    [ping_status |-> "", agent_version |-> "", platform_type |-> "",
     platform_name |-> "", platform_version |-> ""]

\* describe_instance_information filters: an instance SSM does not know gives
\* an empty list
instance_information_call(ssm_client, instance_id, fails) ==
    LET req == Request(ssm_client, "describe_instance_information",
                       [InstanceInformationFilterList |->
                            <<[key |-> "InstanceIds", valueSet |-> <<instance_id>>]>>])
    IN  IF fails THEN Raise("ClientError", <<req>>)
        ELSE IF instance_id \notin DOMAIN ssm_client.aws.ssm_info
        THEN Ret([InstanceInformationList |-> <<>>], <<req>>)
        ELSE Ret(ssm_client.aws.ssm_info[instance_id], <<req>>)

get_instance_ssm_info(ssm_client, instance_id, fails) ==
    LET call == instance_information_call(ssm_client, instance_id, fails)
        ssm_information == call.val.InstanceInformationList
        first == ssm_information[1]
    IN  IF call.exc # "" THEN call
        ELSE IF ~HasKey(call.val, "InstanceInformationList")
        THEN Raise("KeyError", call.reqs)
        ELSE IF ssm_information = <<>> THEN Ret(NoSsmInfo, call.reqs)
        ELSE IF \E k \in {"PingStatus", "AgentVersion", "PlatformType", "PlatformName",
                          "PlatformVersion"} : ~HasKey(first, k)
        THEN Raise("KeyError", call.reqs)
        ELSE Ret([ping_status |-> first.PingStatus,
                  agent_version |-> first.AgentVersion,
                  platform_type |-> first.PlatformType,
                  platform_name |-> first.PlatformName,
                  platform_version |-> first.PlatformVersion],
                 call.reqs)

----------------------------------------------------------------------------
(* helpers: region resolution and the paginated lister *)

\* the regions the provider publishes
get_region_list(p, fails) ==
    LET req == Request(Client("ec2", DefaultRegion, p), "describe_regions", <<>>)
    IN  IF fails THEN Raise("ClientError", <<req>>)
        ELSE Ret(PublishedRegions, <<req>>)

\* region when the provider publishes it, the configured default otherwise
get_region(p, region, fails) ==
    LET call == get_region_list(p, fails)
    IN  IF call.exc # "" THEN call
        ELSE IF region.given /\ \E i \in 1..Len(call.val) : call.val[i] = region.token
        THEN Ret(region.token, call.reqs)
        ELSE Ret(DefaultRegion, call.reqs)

\* one page of a list operation, as the provider answers
list_call(client, function, item_name, params, fails) ==
    LET pages == client.aws.pages[client.region]
        k == IF HasKey(params, "NextToken")
             THEN PageOfToken(Len(pages), params.NextToken)
             ELSE 1
        req == Request(client, function, params)
    IN  IF fails \/ k < 1 \/ k > Len(pages) THEN Raise("ClientError", <<req>>)
        ELSE IF k < Len(pages)
        THEN Ret((item_name :> pages[k]) @@ ("NextToken" :> TokenOf(k)), <<req>>)
        ELSE Ret((item_name :> pages[k]), <<req>>)

\* get_items(client, function, item_name, **args) before its first request
new_get_items(client, function, item_name, extra) ==
    [client |-> [service |-> client.service, region |-> client.region],
     function |-> function, item_name |-> item_name,
     started |-> FALSE, params |-> extra, items |-> <<>>, pos |-> 1, more |-> FALSE]

\* the continuation token of the page just read, merged into the parameters
merge_token(params, response) ==
    IF HasKey(response, "NextToken")
    THEN ("NextToken" :> response.NextToken) @@ params
    ELSE params

\* the generator has an item of the current page left to yield
gen_has_item == gen.started /\ gen.pos <= Len(gen.items)
\* the generator must ask the provider for a page
gen_needs_page == ~gen.started \/ (gen.pos > Len(gen.items) /\ gen.more)
\* the last page is used up
gen_exhausted == gen.started /\ gen.pos > Len(gen.items) /\ ~gen.more

----------------------------------------------------------------------------
(* The provider states a run starts from *)

Provider(pages, mw, patch_group, baseline, ssm_info) ==
    [pages |-> pages, mw |-> mw, patch_group |-> patch_group, baseline |-> baseline,
     ssm_info |-> ssm_info]

WindowIdentity(w) == [WindowId |-> w, Enabled |-> TRUE]
WindowIdentities(ws) == [i \in 1..Len(ws) |-> WindowIdentity(ws[i])]

DefaultTask1 == TaskFull("target-1", "AWS-RunPatchBaseline", "Install")
DefaultTarget1 == DefaultTargets["target-1"]

ZeroTaskWindow(w) == WindowShape(w, "", <<>>, DefaultTask1, DefaultTarget1)
FullWindow(w) ==
    WindowShape(w, "Europe/London", <<TaskIdOf(1)>>, DefaultTask1, DefaultTarget1)
BrokenWindow(w) ==
    WindowShape(w, "", <<TaskIdOf(1)>>,
                TaskResponse(<<KV("InstanceIds", <<"i-1">>)>>, "AWS-RunPatchBaseline"),
                DefaultTarget1)

\* whole runs: the enabled windows of two regions, split into pages every way
PatchingRunProviders ==
    { Provider(("eu-west-1" :> e) @@ ("us-east-1" :> u),
               ("mw-e1" :> ZeroTaskWindow("mw-e1")) @@ ("mw-u1" :> u1)
                   @@ ("mw-u2" :> FullWindow("mw-u2")),
               DefaultPatchGroup, DefaultBaseline, <<>>) :
        e \in Listings(WindowIdentities(<<"mw-e1">>)),
        u \in Listings(WindowIdentities(<<"mw-u1", "mw-u2">>)),
        u1 \in {FullWindow("mw-u1"), BrokenWindow("mw-u1"), ZeroTaskWindow("mw-u1")} }

\* one window: every answer of the lookup chain, each varied where the chain
\* reaches it
ChainCases ==
    { c \in {"", "Europe/London"} \X DistinctTaskLists
            \X (DeadTaskResponses \cup LiveTaskResponses)
            \X (DeadTargetResponses \cup LiveTargetResponses)
            \X {"", "pb-1"} \X BaselineResponses :
        LET first1 == c[2] # <<>> /\ c[2][1] = TaskIdOf(1)
            live3 == first1 /\ c[3] \in LiveTaskResponses
            live4 == live3 /\ c[4] \in LiveTargetResponses
            live5 == live4 /\ c[5] = "pb-1"
        IN  /\ first1 \/ c[3] = DefaultTask1
            /\ live3 \/ c[4] = DefaultTarget1
            /\ live4 \/ c[5] = "pb-1"
            /\ live5 \/ c[6] = DefaultBaseline["pb-1"] }

PatchingItemProviders ==
    { Provider(("eu-west-1" :> <<<<>>>>)
                   @@ ("us-east-1" :> <<WindowIdentities(<<"mw-u1">>)>>),
               ("mw-u1" :> WindowShape("mw-u1", c[1], c[2], c[3], c[4])),
               [DefaultPatchGroup EXCEPT !["group-1"] = [BaselineId |-> c[5]]],
               [DefaultBaseline EXCEPT !["pb-1"] = c[6]],
               <<>>) :
        c \in ChainCases }

(* EC2 instances *)

Tag(k, v) == [Key |-> k, Value |-> v]
TagPool == {Tag("Name", "web"), Tag("Name", "db"), Tag("env", "prod")}

RECURSIVE TagLists(_)
TagLists(n) ==
    IF n = 0 THEN {<<>>}
    ELSE LET shorter == TagLists(n - 1) IN
         shorter \cup {Append(l, t) : l \in {x \in shorter : Len(x) = n - 1},
                                      t \in TagPool}

Instance(id) == [InstanceId |-> id]
InstanceTagged(id, tags) == [InstanceId |-> id, Tags |-> tags]
InstanceOn(id, platform) == [InstanceId |-> id, Platform |-> platform]
InstanceTaggedOn(id, tags, platform) ==
    [InstanceId |-> id, Tags |-> tags, Platform |-> platform]

\* every instance record of one id
InstanceRecords(id) ==
    {Instance(id), InstanceOn(id, "windows")}
    \cup {InstanceTagged(id, l) : l \in TagLists(MaxTags)}
    \cup {InstanceTaggedOn(id, l, "windows") : l \in TagLists(MaxTags)}

SsmRecord(id, ver) ==
    [InstanceId |-> id, PingStatus |-> "Online", AgentVersion |-> ver,
     PlatformType |-> "Linux", PlatformName |-> "Amazon Linux",
     PlatformVersion |-> "2"]
\* an SSM record the provider sends without its platform name
SsmRecordNoPlatformName(id) ==
    [InstanceId |-> id, PingStatus |-> "ConnectionLost", AgentVersion |-> "2.3.50.0",
     PlatformType |-> "Linux", PlatformVersion |-> "2"]
SsmRecordNoPing(id) ==
    [InstanceId |-> id, AgentVersion |-> "2.3.50.0",
     PlatformType |-> "Linux", PlatformName |-> "Amazon Linux",
     PlatformVersion |-> "2"]

SsmResponses(id) ==
    { [InstanceInformationList |-> <<>>],
      [InstanceInformationList |-> <<SsmRecord(id, "3.1.1732.0")>>],
      [InstanceInformationList |-> <<SsmRecord(id, "3.1.1732.0"),
                                     SsmRecord(id, "2.3.50.0")>>],
      [InstanceInformationList |-> <<SsmRecordNoPlatformName(id)>>],
      [InstanceInformationList |-> <<SsmRecordNoPing(id)>>] }

Reservation(instances) == [ReservationId |-> "r", Instances |-> instances]

FullSsm(id) == [InstanceInformationList |-> <<SsmRecord(id, "3.1.1732.0")>>]

\* whole runs: the reservations of two regions, split into pages every way
AgentRunCases ==
    { <<InstanceTagged("i-u1", <<Tag("Name", "web")>>), FullSsm("i-u1")>>,
      <<Instance("i-u1"), [InstanceInformationList |-> <<>>]>>,
      <<Instance("i-u1"),
        [InstanceInformationList |-> <<SsmRecordNoPlatformName("i-u1")>>]>> }

AgentRunReservations(i1) ==
    <<Reservation(<<i1, Instance("i-u2")>>),
      Reservation(<<InstanceTagged("i-u3", <<Tag("env", "prod")>>)>>)>>

AgentRunProviders ==
    UNION { { Provider(("eu-west-1" :> e) @@ ("us-east-1" :> u),
                       <<>>, <<>>, <<>>,
                       ("i-e1" :> FullSsm("i-e1")) @@ ("i-u1" :> u1[2])
                           @@ ("i-u3" :> FullSsm("i-u3"))) :
                e \in Listings(<<Reservation(<<InstanceOn("i-e1", "windows")>>)>>),
                u \in Listings(AgentRunReservations(u1[1])) } :
            u1 \in AgentRunCases }

\* one instance: every instance record and every answer of SSM
AgentItemProviders ==
    { Provider(("eu-west-1" :> <<<<>>>>)
                   @@ ("us-east-1" :> << <<Reservation(<<i>>)>> >>),
               <<>>, <<>>, <<>>, ("i-u1" :> s)) :
        i \in InstanceRecords("i-u1"), s \in SsmResponses("i-u1") }

----------------------------------------------------------------------------
(* main() of both scripts *)

PatchingHeader ==
    <<"Account", "Region", "MW ID", "MW Name", "MW Schedule", "MW TZ", "Task 1 ID",
      "Patch Group", "Task", "Operation", "Baseline", "Baseline Name", "OS",
      "Patch Filter (MSRC Sev)", "Patch Filter (Class)", "Approval Delay">>

AgentHeader ==
    <<"Account", "Region", "InstanceID", "Name", "EC2Platform", "SSMPingStatus",
      "SSMAgentVersion", "SSMPlatformType", "SSMPlatformName", "SSMPlatformVersion">>

Strs(row) == [i \in 1..Len(row) |-> PyStr(row[i])]

\* output.writerow(row): one line, every field str()-ed
writerow(rows, row) == Append(rows, [i \in 1..Len(row) |-> csv_str(row[i])])

mw_enabled_filter == KV("Enabled", <<"true">>)
instance_state_filter ==
    [Name |-> "instance-state-name", Values |-> <<"running", "stopping", "stopped">>]

\* the call of helpers.get_items without its Filters
patching_get_items_unfiltered(ssm_client) ==
    new_get_items(ssm_client, "describe_maintenance_windows", "WindowIdentities", <<>>)

patching_get_items(ssm_client) ==
    new_get_items(ssm_client, "describe_maintenance_windows", "WindowIdentities",
                  [Filters |-> <<mw_enabled_filter>>])

agent_get_items(ec2_client) ==
    new_get_items(ec2_client, "describe_instances", "Reservations",
                  [Filters |-> <<instance_state_filter>>])

\* 'All' and every other casing taken for the sentinel too
patching_region_list_any_case(a, p, fails) ==
    IF a.given /\ a.token \in {"all", "ALL", "All"}
    THEN get_region_list(p, fails)
    ELSE LET r == get_region(p, a, fails)
         IN  IF r.exc # "" THEN r ELSE Ret(<<r.val>>, r.reqs)

patching_region_list(a, p, fails) ==
    IF a.given /\ (a.token = "all" \/ a.token = "ALL")
    THEN get_region_list(p, fails)
    ELSE LET r == get_region(p, a, fails)
         IN  IF r.exc # "" THEN r ELSE Ret(<<r.val>>, r.reqs)

agent_region_list(a, p, fails) ==
    IF a.given /\ (a.token = "all" \/ a.token = "ALL")
    THEN get_region_list(p, fails)
    ELSE LET r == get_region(p, a, fails)
         IN  IF r.exc # "" THEN r ELSE Ret(<<r.val>>, r.reqs)

\* the row of one Maintenance Window, as main lists its fields
patching_row(account, region, l) ==
    Strs(<<account, region, l.maint_window.WindowId,
           l.maint_window_info.name, l.maint_window_info.sched,
           l.maint_window_info.time_zone,
           l.task_1_id, l.patch_tag, l.task_info.task, l.task_info.operation,
           l.baseline_id, l.baseline_info.name, l.baseline_info.operating_system,
           l.baseline_info.filter_msrc_sev, l.baseline_info.filter_class>>)
    \o <<l.baseline_info.delay>>

\* the row of one instance
agent_row(account, region, l) ==
    Strs(<<account, region, l.instance.InstanceId,
           get_instance_name(l.instance).val, get_instance_platform(l.instance).val,
           l.instance_ssm_info.ping_status, l.instance_ssm_info.agent_version,
           l.instance_ssm_info.platform_type, l.instance_ssm_info.platform_name,
           l.instance_ssm_info.platform_version>>)

\* the body of main's loop for one Maintenance Window, no request failing:
\* the row it writes, or the exception that ends it
patching_item(account, client, maint_window) ==
    LET w == maint_window.WindowId
        info == get_maint_window_info(client, w, FALSE)
        task_1 == get_maint_window_task_1(client, w, FALSE)
        task == get_task_info(client, w, task_1.val, FALSE)
        tag == get_target_patch_tag(client, w, task.val.target_id, FALSE)
        bid == get_baseline_id(client, tag.val, FALSE)
        binfo == get_baseline_info(client, bid.val, FALSE)
    IN  IF info.exc # "" THEN Raise(info.exc, <<>>)
        ELSE IF task_1.exc # "" THEN Raise(task_1.exc, <<>>)
        ELSE IF task.exc # "" THEN Raise(task.exc, <<>>)
        ELSE IF tag.exc # "" THEN Raise(tag.exc, <<>>)
        ELSE IF bid.exc # "" THEN Raise(bid.exc, <<>>)
        ELSE IF binfo.exc # "" THEN Raise(binfo.exc, <<>>)
        ELSE Ret(writerow(<<>>,
                          patching_row(account, client.region,
                                       [maint_window |-> maint_window,
                                        maint_window_info |-> info.val,
                                        task_1_id |-> task_1.val,
                                        task_info |-> task.val,
                                        patch_tag |-> tag.val,
                                        baseline_id |-> bid.val,
                                        baseline_info |-> binfo.val]))[1],
                 <<>>)

\* the body of main's loop for one instance, no request failing
agent_item(account, client, instance) ==
    LET info == get_instance_ssm_info(client, instance.InstanceId, FALSE)
        name == get_instance_name(instance)
    IN  IF info.exc # "" THEN Raise(info.exc, <<>>)
        ELSE IF name.exc # "" THEN Raise(name.exc, <<>>)
        ELSE Ret(writerow(<<>>,
                          agent_row(account, client.region,
                                    [instance |-> instance,
                                     instance_ssm_info |-> info.val]))[1],
                 <<>>)

region == region_list[region_idx]
ssm_client == Client("ssm", region, aws)
ec2_client == Client("ec2", region, aws)

NoError == [exc |-> "", at |-> ""]

ItemSteps ==
    {"get_maint_window_info", "get_maint_window_task_1", "get_task_info",
     "get_target_patch_tag", "get_baseline_id", "get_baseline_info",
     "get_instance_ssm_info", "get_instance_name", "get_instance_platform"}

\* an exception of an item's lookups swallowed, the loop going on with the next item
Fail_continue(e, at) ==
    IF at \in ItemSteps
    THEN /\ pc' = "list"
         /\ err' = err
         /\ UNCHANGED <<region_list, region_idx, account_number, gen, locals, out, yielded>>
    ELSE /\ pc' = "aborted"
         /\ err' = [exc |-> e, at |-> at]
         /\ UNCHANGED <<region_list, region_idx, account_number, gen, locals, out, yielded>>

\* an unhandled exception ends the process
Fail(e, at) ==
    /\ pc' = "aborted"
    /\ err' = [exc |-> e, at |-> at]
    /\ UNCHANGED <<region_list, region_idx, account_number, gen, locals, out, yielded>>

\* a step that calls r: it issues r's requests, then fails or goes on with Ok
Step(at, r, Ok) ==
    /\ calls' = calls \o r.reqs
    /\ UNCHANGED <<script, args, aws>>
    /\ IF r.exc # "" THEN Fail(r.exc, at) ELSE (Ok /\ UNCHANGED err)

\* a step that calls nothing
Local(Ok) == Ok /\ UNCHANGED <<script, args, aws, calls, err>>

InitLocals ==
    [maint_window |-> WindowIdentity(""), maint_window_info |-> NoWindowInfo,
     task_1_id |-> "", task_info |-> NoTaskInfo, patch_tag |-> "",
     baseline_id |-> "", baseline_info |-> NoBaselineInfo,
     reservation |-> Reservation(<<>>), instance_idx |-> 0,
     instance |-> Instance(""), instance_ssm_info |-> NoSsmInfo]

InitRun ==
    /\ pc = "start"
    /\ region_list = <<>>
    /\ region_idx = 0
    /\ account_number = ""
    /\ gen = new_get_items(Client("", "", <<>>), "", "", <<>>)
    /\ locals = InitLocals
    /\ out = <<>>
    /\ calls = <<>>
    /\ yielded = <<>>
    /\ err = NoError

(* ssm_patching_audit.main *)

patching_resolve_regions ==
    /\ script = "patching" /\ pc = "start"
    /\ \E fails \in BOOLEAN :
         LET r == patching_region_list(args, aws, fails) IN
         Step("region_list", r,
              /\ region_list' = r.val
              /\ pc' = "header"
              /\ UNCHANGED <<region_idx, account_number, gen, locals, out, yielded>>)

patching_write_header ==
    /\ script = "patching" /\ pc = "header"
    /\ Local(/\ out' = writerow(out, Strs(PatchingHeader))
             /\ pc' = "sts"
             /\ UNCHANGED <<region_list, region_idx, account_number, gen, locals,
                            yielded>>)

\* boto3.client('sts').get_caller_identity()['Account']
get_caller_identity(p, fails) ==
    LET req == Request(Client("sts", DefaultRegion, p), "get_caller_identity", <<>>)
    IN  IF fails THEN Raise("ClientError", <<req>>) ELSE Ret(AccountId, <<req>>)

patching_get_caller_identity ==
    /\ script = "patching" /\ pc = "sts"
    /\ \E fails \in BOOLEAN :
         LET r == get_caller_identity(aws, fails) IN
         Step("get_caller_identity", r,
              /\ account_number' = r.val
              /\ region_idx' = 1
              /\ pc' = "regions"
              /\ UNCHANGED <<region_list, gen, locals, out, yielded>>)

\* for region in region_list
patching_for_region ==
    /\ script = "patching" /\ pc = "regions"
    /\ Local(/\ IF region_idx <= Len(region_list)
                THEN gen' = patching_get_items(ssm_client) /\ pc' = "list"
                ELSE pc' = "done" /\ UNCHANGED gen
             /\ UNCHANGED <<region_list, region_idx, account_number, locals, out,
                            yielded>>)

\* for maint_window in helpers.get_items(...): the generator yields
patching_for_maint_window ==
    /\ script = "patching" /\ pc = "list" /\ gen_has_item
    /\ Local(/\ locals' = [locals EXCEPT !.maint_window = gen.items[gen.pos]]
             /\ yielded' = Append(yielded, [region |-> region, item |-> gen.items[gen.pos]])
             /\ gen' = [gen EXCEPT !.pos = @ + 1]
             /\ pc' = "get_maint_window_info"
             /\ UNCHANGED <<region_list, region_idx, account_number, out>>)

patching_get_maint_window_info ==
    /\ script = "patching" /\ pc = "get_maint_window_info"
    /\ \E fails \in BOOLEAN :
         LET r == get_maint_window_info(ssm_client, locals.maint_window.WindowId, fails) IN
         Step("get_maint_window_info", r,
              /\ locals' = [locals EXCEPT !.maint_window_info = r.val]
              /\ pc' = "get_maint_window_task_1"
              /\ UNCHANGED <<region_list, region_idx, account_number, gen, out, yielded>>)

patching_get_maint_window_task_1 ==
    /\ script = "patching" /\ pc = "get_maint_window_task_1"
    /\ \E fails \in BOOLEAN :
         LET r == get_maint_window_task_1(ssm_client, locals.maint_window.WindowId, fails) IN
         Step("get_maint_window_task_1", r,
              /\ locals' = [locals EXCEPT !.task_1_id = r.val]
              /\ pc' = "get_task_info"
              /\ UNCHANGED <<region_list, region_idx, account_number, gen, out, yielded>>)

patching_get_task_info ==
    /\ script = "patching" /\ pc = "get_task_info"
    /\ \E fails \in BOOLEAN :
         LET r == get_task_info(ssm_client, locals.maint_window.WindowId,
                                locals.task_1_id, fails) IN
         Step("get_task_info", r,
              /\ locals' = [locals EXCEPT !.task_info = r.val]
              /\ pc' = "get_target_patch_tag"
              /\ UNCHANGED <<region_list, region_idx, account_number, gen, out, yielded>>)

patching_get_target_patch_tag ==
    /\ script = "patching" /\ pc = "get_target_patch_tag"
    /\ \E fails \in BOOLEAN :
         LET r == get_target_patch_tag(ssm_client, locals.maint_window.WindowId,
                                       locals.task_info.target_id, fails) IN
         Step("get_target_patch_tag", r,
              /\ locals' = [locals EXCEPT !.patch_tag = r.val]
              /\ pc' = "get_baseline_id"
              /\ UNCHANGED <<region_list, region_idx, account_number, gen, out, yielded>>)

patching_get_baseline_id ==
    /\ script = "patching" /\ pc = "get_baseline_id"
    /\ \E fails \in BOOLEAN :
         LET r == get_baseline_id(ssm_client, locals.patch_tag, fails) IN
         Step("get_baseline_id", r,
              /\ locals' = [locals EXCEPT !.baseline_id = r.val]
              /\ pc' = "get_baseline_info"
              /\ UNCHANGED <<region_list, region_idx, account_number, gen, out, yielded>>)

patching_get_baseline_info ==
    /\ script = "patching" /\ pc = "get_baseline_info"
    /\ \E fails \in BOOLEAN :
         LET r == get_baseline_info(ssm_client, locals.baseline_id, fails) IN
         Step("get_baseline_info", r,
              /\ locals' = [locals EXCEPT !.baseline_info = r.val]
              /\ pc' = "write_row"
              /\ UNCHANGED <<region_list, region_idx, account_number, gen, out, yielded>>)

patching_write_row ==
    /\ script = "patching" /\ pc = "write_row"
    /\ Local(/\ out' = writerow(out, patching_row(account_number, region, locals))
             /\ pc' = "list"
             /\ UNCHANGED <<region_list, region_idx, account_number, gen, locals,
                            yielded>>)

(* helpers.get_items, the generator both scripts iterate *)

\* the generator asks for its first page, or for the page after a page that
\* carried a continuation token
get_items_request ==
    /\ pc = "list" /\ gen_needs_page
    /\ \E fails \in BOOLEAN :
         LET r == list_call(Client(gen.client.service, gen.client.region, aws),
                            gen.function, gen.item_name, gen.params, fails) IN
         Step("get_items", r,
              /\ gen' = [gen EXCEPT !.started = TRUE,
                                    !.items = r.val[gen.item_name],
                                    !.pos = 1,
                                    !.more = HasKey(r.val, "NextToken"),
                                    !.params = merge_token(gen.params, r.val)]
              /\ pc' = "list"
              /\ UNCHANGED <<region_list, region_idx, account_number, locals, out,
                             yielded>>)

\* the generator returns after a page without a continuation token: the for
\* loop over it ends and main goes on with the next region
get_items_stop ==
    /\ pc = "list" /\ gen_exhausted
    /\ Local(/\ region_idx' = region_idx + 1
             /\ pc' = "regions"
             /\ UNCHANGED <<region_list, account_number, gen, locals, out, yielded>>)

(* ssm_agent_audit.main *)

agent_resolve_regions ==
    /\ script = "agent" /\ pc = "start"
    /\ \E fails \in BOOLEAN :
         LET r == agent_region_list(args, aws, fails) IN
         Step("region_list", r,
              /\ region_list' = r.val
              /\ pc' = "sts"
              /\ UNCHANGED <<region_idx, account_number, gen, locals, out, yielded>>)

agent_get_caller_identity ==
    /\ script = "agent" /\ pc = "sts"
    /\ \E fails \in BOOLEAN :
         LET r == get_caller_identity(aws, fails) IN
         Step("get_caller_identity", r,
              /\ account_number' = r.val
              /\ pc' = "header"
              /\ UNCHANGED <<region_list, region_idx, gen, locals, out, yielded>>)

agent_write_header ==
    /\ script = "agent" /\ pc = "header"
    /\ Local(/\ out' = writerow(out, Strs(AgentHeader))
             /\ region_idx' = 1
             /\ pc' = "regions"
             /\ UNCHANGED <<region_list, account_number, gen, locals, yielded>>)

\* for region in region_list
agent_for_region ==
    /\ script = "agent" /\ pc = "regions"
    /\ Local(/\ IF region_idx <= Len(region_list)
                THEN gen' = agent_get_items(ec2_client) /\ pc' = "list"
                ELSE pc' = "done" /\ UNCHANGED gen
             /\ UNCHANGED <<region_list, region_idx, account_number, locals, out,
                            yielded>>)

\* for reservation in helpers.get_items(...): the generator yields
agent_for_reservation ==
    /\ script = "agent" /\ pc = "list" /\ gen_has_item
    /\ Local(/\ locals' = [locals EXCEPT !.reservation = gen.items[gen.pos],
                                         !.instance_idx = 1]
             /\ yielded' = Append(yielded, [region |-> region, item |-> gen.items[gen.pos]])
             /\ gen' = [gen EXCEPT !.pos = @ + 1]
             /\ pc' = "instances"
             /\ UNCHANGED <<region_list, region_idx, account_number, out>>)

\* for instance in reservation['Instances']
agent_for_instance ==
    /\ script = "agent" /\ pc = "instances"
    /\ Local(/\ IF locals.instance_idx <= Len(locals.reservation.Instances)
                THEN /\ locals' = [locals EXCEPT !.instance =
                                       locals.reservation.Instances[locals.instance_idx]]
                     /\ pc' = "get_instance_ssm_info"
                ELSE pc' = "list" /\ UNCHANGED locals
             /\ UNCHANGED <<region_list, region_idx, account_number, gen, out, yielded>>)

agent_get_instance_ssm_info ==
    /\ script = "agent" /\ pc = "get_instance_ssm_info"
    /\ \E fails \in BOOLEAN :
         LET r == get_instance_ssm_info(ssm_client, locals.instance.InstanceId, fails) IN
         Step("get_instance_ssm_info", r,
              /\ locals' = [locals EXCEPT !.instance_ssm_info = r.val]
              /\ pc' = "write_row"
              /\ UNCHANGED <<region_list, region_idx, account_number, gen, out, yielded>>)

\* get_instance_name and get_instance_platform are called while the row is
\* built; a raise of either ends the process before anything is written
agent_write_row ==
    /\ script = "agent" /\ pc = "write_row"
    /\ LET name == get_instance_name(locals.instance)
           platform == get_instance_platform(locals.instance)
       IN  Step(IF name.exc # "" THEN "get_instance_name" ELSE "get_instance_platform",
                IF name.exc # "" THEN name ELSE platform,
                /\ out' = writerow(out, agent_row(account_number, region, locals))
                /\ locals' = [locals EXCEPT !.instance_idx = @ + 1]
                /\ pc' = "instances"
                /\ UNCHANGED <<region_list, region_idx, account_number, gen, yielded>>)

----------------------------------------------------------------------------
(* Specifications *)

Scripts == {"patching", "agent"}

\* whole runs over both regions, with every --region token
Init ==
    /\ script \in Scripts
    /\ args \in {NoRegion} \cup {GivenRegion(t) : t \in RegionTokens}
    /\ aws \in (IF script = "patching" THEN PatchingRunProviders ELSE AgentRunProviders)
    /\ InitRun

\* runs over one listed item, with every shape of the provider's answers
InitItem ==
    /\ script \in Scripts
    /\ args = NoRegion
    /\ aws \in (IF script = "patching" THEN PatchingItemProviders ELSE AgentItemProviders)
    /\ InitRun

Next ==
    \/ patching_resolve_regions
    \/ patching_write_header
    \/ patching_get_caller_identity
    \/ patching_for_region
    \/ patching_for_maint_window
    \/ patching_get_maint_window_info
    \/ patching_get_maint_window_task_1
    \/ patching_get_task_info
    \/ patching_get_target_patch_tag
    \/ patching_get_baseline_id
    \/ patching_get_baseline_info
    \/ patching_write_row
    \/ get_items_request
    \/ get_items_stop
    \/ agent_resolve_regions
    \/ agent_get_caller_identity
    \/ agent_write_header
    \/ agent_for_region
    \/ agent_for_reservation
    \/ agent_for_instance
    \/ agent_get_instance_ssm_info
    \/ agent_write_row

Spec == Init /\ [][Next]_vars

SpecItem == InitItem /\ [][Next]_vars

----------------------------------------------------------------------------
(* What the claims speak of *)

Header == IF script = "patching" THEN PatchingHeader ELSE AgentHeader

\* the data rows written so far
Rows == IF out = <<>> THEN <<>> ELSE Tail(out)

\* the process stopped on an exception raised at one of the steps in ats
AbortedAt(ats) == pc = "aborted" /\ err.at \in ats

\* the instances of a sequence of reservations, in order
RECURSIVE InstancesOf(_)
InstancesOf(reservations) ==
    IF reservations = <<>> THEN <<>>
    ELSE [i \in 1..Len(reservations[1].Instances) |->
             reservations[1].Instances[i]]
         \o InstancesOf(Tail(reservations))

\* the items of one region a row is due for, in listing order
RegionItems(r) ==
    LET listed == Flatten(aws.pages[r])
        items == IF script = "patching" THEN listed ELSE InstancesOf(listed)
    IN  [i \in 1..Len(items) |-> [region |-> r, item |-> items[i]]]

\* ... and of the regions rs, in region order
RECURSIVE ListedItems(_)
ListedItems(rs) ==
    IF rs = <<>> THEN <<>> ELSE RegionItems(rs[1]) \o ListedItems(Tail(rs))

\* the items main has begun to work on
StartedItems ==
    IF script = "patching" THEN Len(yielded)
    ELSE IF yielded = <<>> THEN 0
    ELSE Len(InstancesOf([i \in 1..(Len(yielded) - 1) |-> yielded[i].item]))
         + (IF pc \in {"get_instance_ssm_info", "write_row"}
               \/ AbortedAt(ItemSteps)
            THEN locals.instance_idx
            ELSE locals.instance_idx - 1)

\* the row of a listed item when no request fails
ItemRow(p, li) ==
    IF script = "patching"
    THEN patching_item(AccountId, Client("ssm", li.region, p), li.item)
    ELSE agent_item(AccountId, Client("ssm", li.region, p), li.item)

\* the rows of a run none of whose requests fails: those of the listed items,
\* up to the first item whose lookups raise
RECURSIVE RowsOf(_)
RowsOf(items) ==
    IF items = <<>> THEN <<>>
    ELSE LET r == ItemRow(aws, items[1])
         IN  IF r.exc # "" THEN <<>> ELSE <<r.val>> \o RowsOf(Tail(items))

FullOutput == <<Header>> \o RowsOf(ListedItems(region_list))

----------------------------------------------------------------------------
(* The claims *)

ZeroTasks(w) == w \in DOMAIN aws.mw /\ aws.mw[w].tasks.Tasks = <<>>

\* C1: a Maintenance Window whose task listing returns zero tasks raises
\* nothing in the steps from get_maint_window_task_1 to get_baseline_info and
\* gets exactly one row, whose Task 1 ID, Patch Group, Task, Operation,
\* Baseline, Baseline Name, OS, both Patch Filters and Approval Delay are ''.
C1_ZeroTaskWindowRow ==
    script = "patching" =>
      /\ \A k \in 1..Len(Rows) :
           ZeroTasks(Rows[k][3]) => \A j \in 7..16 : Rows[k][j] = ""
      /\ (pc = "aborted" /\ err.at \in ItemSteps /\ ZeroTasks(locals.maint_window.WindowId))
           => /\ err.at \in {"get_maint_window_info", "get_maint_window_task_1"}
              /\ err.exc = "ClientError"
      /\ \A i \in 1..Len(yielded) :
           (ZeroTasks(yielded[i].item.WindowId)
              /\ (i < Len(yielded) \/ pc \in {"list", "regions", "done"}))
           => Cardinality({k \in 1..Len(Rows) :
                             Rows[k][2] = yielded[i].region
                             /\ Rows[k][3] = yielded[i].item.WindowId}) = 1

C1_Witness ==
    /\ script = "patching" /\ pc = "done"
    /\ \E k \in 1..Len(Rows) : ZeroTasks(Rows[k][3]) /\ Rows[k][4] # ""

\* C2 as claimed: no row is dropped for missing optional data: the process
\* stops early only when a request fails, and a finished run has written one
\* row for every listed item.
C2_NoRowDropped ==
    /\ pc = "aborted" => err.exc = "ClientError"
    /\ pc = "done" => Len(Rows) = Len(ListedItems(region_list))

\* C3: no lookup is requested with an empty id, and a step whose input is ''
\* leaves its outputs and everything downstream ''.
EmptyIdRequested(c) ==
    \/ c.api = "get_maintenance_window_task" /\ c.params.WindowTaskId = ""
    \/ c.api = "describe_maintenance_window_targets"
         /\ \E i \in 1..Len(c.params.Filters) : "" \in
               {c.params.Filters[i].Values[j] : j \in 1..Len(c.params.Filters[i].Values)}
    \/ c.api = "get_patch_baseline_for_patch_group" /\ c.params.PatchGroup = ""
    \/ c.api = "get_patch_baseline" /\ c.params.BaselineId = ""

C3_ShortCircuit ==
    script = "patching" =>
      /\ \A i \in 1..Len(calls) : ~EmptyIdRequested(calls[i])
      /\ pc \in {"get_target_patch_tag", "get_baseline_id", "get_baseline_info", "write_row"}
           /\ locals.task_1_id = "" => locals.task_info = NoTaskInfo
      /\ pc \in {"get_baseline_id", "get_baseline_info", "write_row"}
           /\ locals.task_info.target_id = "" => locals.patch_tag = ""
      /\ pc \in {"get_baseline_info", "write_row"}
           /\ locals.patch_tag = "" => locals.baseline_id = ""
      /\ pc = "write_row"
           /\ locals.baseline_id = "" => locals.baseline_info = NoBaselineInfo
      /\ \A k \in 1..Len(Rows) :
           /\ Rows[k][7] = "" => \A j \in 8..16 : Rows[k][j] = ""
           /\ Rows[k][8] = "" => \A j \in 11..16 : Rows[k][j] = ""
           /\ Rows[k][11] = "" => \A j \in 12..16 : Rows[k][j] = ""

\* a row of a window that has a first task with a target, but no patch group
C3_Witness ==
    /\ script = "patching"
    /\ \E k \in 1..Len(Rows) : Rows[k][7] # "" /\ Rows[k][9] # "" /\ Rows[k][8] = ""
    /\ \E i \in 1..Len(calls) : calls[i].api = "describe_maintenance_window_targets"

\* the comma-joined Values of the first entry of filters whose Key is key
FirstFilterJoined(filters, key) ==
    LET i == CHOOSE i \in 1..Len(filters) :
                 filters[i].Key = key /\ \A j \in 1..(i - 1) : filters[j].Key # key
    IN  str_join(",", filters[i].Values)

\* C4: in the row of a window whose chain ends in a baseline, the two Patch
\* Filter columns are the comma-joined Values of the 'MSRC_SEVERITY' and of the
\* 'CLASSIFICATION' entry of the first patch rule's PatchFilters.
C4_FiltersJoined ==
    script = "patching" =>
      \A k \in 1..Len(Rows) :
        Rows[k][11] # "" =>
          LET rules == aws.baseline[Rows[k][11]].ApprovalRules.PatchRules
              filters == rules[1].PatchFilterGroup.PatchFilters
          IN  /\ rules # <<>>
              /\ \E i \in 1..Len(filters) : filters[i].Key = "MSRC_SEVERITY"
              /\ \E i \in 1..Len(filters) : filters[i].Key = "CLASSIFICATION"
              /\ Rows[k][14] = FirstFilterJoined(filters, "MSRC_SEVERITY")
              /\ Rows[k][15] = FirstFilterJoined(filters, "CLASSIFICATION")

\* a row of a baseline with two patch rules, the first naming two severities
C4_Witness ==
    /\ script = "patching"
    /\ \E k \in 1..Len(Rows) :
         /\ Rows[k][11] # ""
         /\ Len(aws.baseline[Rows[k][11]].ApprovalRules.PatchRules) > 1
         /\ Rows[k][14] = "Critical,Important"
         /\ Rows[k][15] = "SecurityUpdates"

\* the regions the claim has queried for the token given
ExpectedRegions ==
    IF args.given /\ args.token \in {"all", "ALL"}
    THEN {PublishedRegions[i] : i \in 1..Len(PublishedRegions)}
    ELSE IF args.given /\ \E i \in 1..Len(PublishedRegions) : PublishedRegions[i] = args.token
    THEN {args.token}
    ELSE {DefaultRegion}

RegionalCalls == {i \in 1..Len(calls) : calls[i].service \in {"ssm", "ec2"}
                                        /\ calls[i].api # "describe_regions"}

\* C5: 'all' and 'ALL' query every published region; any other token, and
\* none, queries one region: the token when it is published, the configured
\* default otherwise.
C5_RegionsQueried ==
    /\ (pc # "start" /\ ~AbortedAt({"region_list"}))
         => /\ {region_list[i] : i \in 1..Len(region_list)} = ExpectedRegions
            /\ Len(region_list) = Cardinality(ExpectedRegions)
    /\ \A i \in RegionalCalls : calls[i].region \in ExpectedRegions
    /\ pc = "done" =>
         {calls[i].region : i \in {j \in RegionalCalls :
                                     calls[j].api \in {"describe_maintenance_windows",
                                                       "describe_instances"}}}
           = ExpectedRegions

\* a finished run given 'All', which is not the sentinel: one region queried
C5_Witness ==
    /\ pc = "done" /\ args.given /\ args.token = "All"
    /\ \E i \in RegionalCalls : calls[i].region = DefaultRegion

\* the list operation of the script, and the parameters its call site gives
ListFunction ==
    IF script = "patching" THEN "describe_maintenance_windows" ELSE "describe_instances"
CallerFilters ==
    IF script = "patching"
    THEN <<[Key |-> "Enabled", Values |-> <<"true">>]>>
    ELSE <<[Name |-> "instance-state-name",
            Values |-> <<"running", "stopping", "stopped">>]>>

ListRequests(r) == SelectSeq(calls, LAMBDA c : c.api = ListFunction /\ c.region = r)
YieldedIn(r) ==
    LET ys == SelectSeq(yielded, LAMBDA y : y.region = r)
    IN  [i \in 1..Len(ys) |-> ys[i].item]

\* C6: the lister yields the items of the pages in page order and in the order
\* within each page, each once; every request carries the caller's Filters,
\* and, but for the first, the continuation token of the page before; after
\* the page without a token no request follows.
C6_PaginatedListing ==
    \A j \in 1..Len(region_list) :
      LET r == region_list[j]
          pages == aws.pages[r]
          reqs == ListRequests(r)
      IN  /\ Len(reqs) <= Len(pages)
          /\ \A k \in 1..Len(reqs) :
               reqs[k].params = IF k = 1
                                THEN [Filters |-> CallerFilters]
                                ELSE [Filters |-> CallerFilters,
                                      NextToken |-> TokenOf(k - 1)]
          /\ IsPrefix(YieldedIn(r), Flatten(pages))
          /\ Len(YieldedIn(r)) <= Len(Flatten(SubSeq(pages, 1, Len(reqs))))
          /\ (j < region_idx \/ pc = "done")
               => YieldedIn(r) = Flatten(pages) /\ Len(reqs) = Len(pages)
          /\ (j > region_idx /\ pc # "done") => reqs = <<>>

\* a finished run that listed a region in two pages, neither empty
C6_Witness ==
    /\ pc = "done"
    /\ \E j \in 1..Len(region_list) :
         LET pages == aws.pages[region_list[j]]
         IN  /\ Len(pages) >= 2 /\ pages[1] # <<>> /\ pages[2] # <<>>
             /\ Len(ListRequests(region_list[j])) = Len(pages)

\* C7: what has been written is at every point a prefix of what the run
\* writes when no request fails: the header once and first, then one whole
\* row per item in region order and listing order; a run that a failure stops
\* has written the rows of the items done before it and nothing else.
C7_OutputPrefix ==
    /\ (pc = "start" \/ AbortedAt({"region_list"})) => out = <<>>
    /\ (pc # "start" /\ ~AbortedAt({"region_list"})) => IsPrefix(out, FullOutput)
    /\ pc = "done" => out = FullOutput
    /\ out # <<>> => out[1] = Header
    /\ \A k \in 1..Len(Rows) : Rows[k] # Header /\ Len(Rows[k]) = Len(Header)
    /\ AbortedAt(ItemSteps) => Len(Rows) = StartedItems - 1
    /\ AbortedAt({"get_items"}) => Len(Rows) = StartedItems

\* a run stopped by a failed request after it wrote a row in each region
C7_Witness ==
    /\ AbortedAt(ItemSteps) /\ err.exc = "ClientError"
    /\ Len(Rows) >= 2 /\ Rows[1][2] # Rows[Len(Rows)][2]
    /\ Len(FullOutput) > Len(out)

\* the Values of the tags of an instance whose Key is 'Name'
NameTagValues(instance) ==
    IF ~HasKey(instance, "Tags") THEN {}
    ELSE {instance.Tags[i].Value :
            i \in {j \in 1..Len(instance.Tags) : instance.Tags[j].Key = "Name"}}

\* C8: get_instance_name never raises; the Name column of an instance's row is
\* '' when the record has no 'Tags' or no 'Name' tag, and the Value of one of
\* its 'Name' tags otherwise.
C8_InstanceName ==
    script = "agent" =>
      /\ err.at # "get_instance_name"
      /\ \A k \in 1..Len(Rows) :
           LET instance == ListedItems(region_list)[k].item
           IN  /\ Rows[k][3] = instance.InstanceId
               /\ IF NameTagValues(instance) = {}
                  THEN Rows[k][4] = ""
                  ELSE Rows[k][4] \in NameTagValues(instance)

\* the row of an instance whose record has no 'Tags' key
C8_Witness ==
    /\ script = "agent"
    /\ \E k \in 1..Len(Rows) :
         /\ ~HasKey(ListedItems(region_list)[k].item, "Tags")
         /\ Rows[k][6] # ""

\* the provider with every window's task list cut back to its first task
FirstTaskOnly(p) ==
    [p EXCEPT !.mw = [w \in DOMAIN p.mw |->
        [p.mw[w] EXCEPT !.tasks =
            [Tasks |-> IF @.Tasks = <<>> THEN <<>> ELSE <<@.Tasks[1]>>]]]]

\* C9: the row of a window is the row the same window gets from the provider
\* that lists its first task alone: the tasks after the first change nothing.
C9_FirstTaskOnly ==
    script = "patching" =>
      \A k \in 1..Len(Rows) :
        LET r == ItemRow(FirstTaskOnly(aws), yielded[k])
        IN  r.exc = "" /\ r.val = Rows[k]

\* the row of a window with two tasks or more
C9_Witness ==
    /\ script = "patching"
    /\ \E k \in 1..Len(Rows) : Len(aws.mw[Rows[k][3]].tasks.Tasks) >= 2

\* the patch tag the claim has get_target_patch_tag return for an answer
ClaimedPatchTag(target_list) ==
    IF ~HasKey(target_list, "Targets") THEN ""
    ELSE IF target_list.Targets = <<>> THEN ""
    ELSE IF ~HasKey(target_list.Targets[1], "Targets") THEN ""
    ELSE LET tags == items_with_key(target_list.Targets[1].Targets, "tag:Patch Group")
         IN  IF tags = <<>> THEN ""
             ELSE IF tags[1].Values = <<>> THEN ""
             ELSE tags[1].Values[1]

\* what get_target_patch_tag returned is what the claim has it return
C10_ReturnedTag ==
    (script = "patching" /\ pc = "get_baseline_id" /\ locals.task_info.target_id # "")
      => locals.patch_tag =
           ClaimedPatchTag(targets_call(ssm_client, locals.maint_window.WindowId,
                                        locals.task_info.target_id, FALSE).val)

\* C10 as claimed: called with a target id, get_target_patch_tag raises
\* nothing of its own, and returns '' when the patch group tag is absent and
\* the first value of the first target's 'tag:Patch Group' entry otherwise.
C10_PatchTagNeverRaises ==
    /\ AbortedAt({"get_target_patch_tag"}) => err.exc = "ClientError"
    /\ C10_ReturnedTag

====
